---- MODULE Spec2Model ----
(***************************************************************************)
(* Model of shared/retry_config.py: the module's load sequence (optional   *)
(* import of google.genai, the three tenacity decorator presets, the three *)
(* HttpRetryOptions objects) and the retry loop that a decorator built by  *)
(* tenacity.retry(stop=..., wait=..., retry=..., before_sleep=...,         *)
(* reraise=True) runs around a wrapped operation (Spec); of the script     *)
(* day_one/main.py, statement by statement (SpecMain); and of two runs of  *)
(* day_one/test_env_vars.py in two environments (SpecTev).                 *)
(***************************************************************************)
EXTENDS Integers, Sequences, FiniteSets, TLC

\* ------------------------------------------------------------------ bounds
\* Arguments a caller passes to with_retry(max_attempts, min_wait, max_wait,
\* multiplier) are drawn from 1..MaxAttemptsArg, 0..MaxWaitArg, 0..MaxWaitArg
\* and 0..MaxMultiplierArg.
MaxAttemptsArg == 3
MaxWaitArg == 2
MaxMultiplierArg == 2
\* The distinct non-empty values an environment variable takes.
NumValues == 2
\* The questions a user asks in main.py's interactive loop.
MaxTurns == 2

\* --------------------------------------------------------- exception types
\* The classes the module defines (all direct subclasses of Exception) and
\* the builtin ones it names or that an operation may raise.
RateLimitError == "RateLimitError"
APIConnectionError == "APIConnectionError"
APITimeoutError == "APITimeoutError"

\* The direct base class of each exception class.
Base(c) ==
    CASE c = "RateLimitError" -> "Exception"
      [] c = "APIConnectionError" -> "Exception"
      [] c = "APITimeoutError" -> "Exception"
      [] c = "ConnectionError" -> "OSError"
      [] c = "TimeoutError" -> "OSError"
      [] c = "ConnectionResetError" -> "ConnectionError"
      [] c = "OSError" -> "Exception"
      [] c = "ValueError" -> "Exception"
      [] c = "ImportError" -> "Exception"
      [] c = "ModuleNotFoundError" -> "ImportError"
      [] OTHER -> "BaseException"

RECURSIVE IsSubclass(_, _)
IsSubclass(c, d) ==
    IF c = d THEN TRUE
    ELSE IF c = "BaseException" THEN FALSE
    ELSE IsSubclass(Base(c), d)

\* The error kinds a wrapped operation raises in this model: the five kinds
\* the module names, a subclass of one of them, a superclass of two of them
\* and an unrelated kind.
RaisedKinds ==
    {RateLimitError, APIConnectionError, APITimeoutError,
     "ConnectionError", "TimeoutError", "ConnectionResetError",
     "OSError", "ValueError"}

\* ------------------------------------------------------- tenacity pieces
RECURSIVE Pow(_, _)
Pow(b, e) == IF e = 0 THEN 1 ELSE b * Pow(b, e - 1)

Min2(a, b) == IF a <= b THEN a ELSE b
Max2(a, b) == IF a >= b THEN a ELSE b

\* Mutant: the stop test is off by one.
stop_after_attempt_off_by_one(max_attempt_number, attempt) ==
    attempt > max_attempt_number

\* stop_after_attempt(max_attempt_number): stop once the attempt number has
\* reached it.
stop_after_attempt(max_attempt_number, attempt) ==
    attempt >= max_attempt_number

\* Mutant: the multiplier is taken as the base of the exponential and min as
\* its first value.
wait_exponential_multiplier_base(multiplier, min, max, attempt) ==
    Min2(max, min * Pow(multiplier, attempt - 1))

\* Mutant: the upper clamp is left out.
wait_exponential_no_upper_clamp(multiplier, min, max, attempt) ==
    Max2(Max2(0, min), multiplier * Pow(2, attempt - 1))

\* wait_exponential(multiplier, min, max) with its default exp_base of 2:
\* multiplier * 2^(attempt-1), clamped into [max(0, min), max] with the lower
\* clamp applied last.
wait_exponential(multiplier, min, max, attempt) ==
    Max2(Max2(0, min), Min2(multiplier * Pow(2, attempt - 1), max))

\* Mutant: every exception is retried.
retry_if_exception_type_any(types, out) ==
    out.failed

\* Mutant: retry_unless_exception_type in place of retry_if_exception_type:
\* retry until one of the types is raised.
retry_unless_exception_type(types, out) ==
    IF ~out.failed THEN TRUE
    ELSE ~\E t \in types : IsSubclass(out.kind, t)

\* retry_if_exception_type(types): the attempt failed and the exception is an
\* instance of one of the types.
retry_if_exception_type(types, out) ==
    out.failed /\ \E t \in types : IsSubclass(out.kind, t)

\* The five types with_retry, api_retry and aggressive_retry retry on.
RetryTypesFive ==
    {RateLimitError, APIConnectionError, APITimeoutError,
     "ConnectionError", "TimeoutError"}

\* The three types conservative_retry retries on.
RetryTypesThree ==
    {RateLimitError, APIConnectionError, APITimeoutError}

\* ------------------------------------------------------------ decorators
with_retry(max_attempts, min_wait, max_wait, multiplier) ==
    [name |-> "with_retry", stop |-> max_attempts,
     multiplier |-> multiplier, min |-> min_wait, max |-> max_wait,
     retry |-> RetryTypesFive, before_sleep |-> "WARNING", reraise |-> TRUE]

\* with_retry() called with its defaults.
with_retry_default == with_retry(5, 1, 60, 2)

\* Mutant: the standard preset built with multiplier=2.
api_retry_multiplier_two ==
    [name |-> "api_retry", stop |-> 5,
     multiplier |-> 2, min |-> 1, max |-> 60,
     retry |-> RetryTypesFive, before_sleep |-> "WARNING", reraise |-> TRUE]

api_retry ==
    [name |-> "api_retry", stop |-> 5,
     multiplier |-> 1, min |-> 1, max |-> 60,
     retry |-> RetryTypesFive, before_sleep |-> "WARNING", reraise |-> TRUE]

\* Mutant: the aggressive preset built with min and max exchanged.
aggressive_retry_min_max_swapped ==
    [name |-> "aggressive_retry", stop |-> 10,
     multiplier |-> 2, min |-> 120, max |-> 2,
     retry |-> RetryTypesFive, before_sleep |-> "WARNING", reraise |-> TRUE]

aggressive_retry ==
    [name |-> "aggressive_retry", stop |-> 10,
     multiplier |-> 2, min |-> 2, max |-> 120,
     retry |-> RetryTypesFive, before_sleep |-> "WARNING", reraise |-> TRUE]

\* Mutant: the conservative preset retrying on the same five types as the
\* other presets.
conservative_retry_five_types ==
    [name |-> "conservative_retry", stop |-> 3,
     multiplier |-> 1, min |-> 1, max |-> 30,
     retry |-> RetryTypesFive, before_sleep |-> "WARNING", reraise |-> TRUE]

conservative_retry ==
    [name |-> "conservative_retry", stop |-> 3,
     multiplier |-> 1, min |-> 1, max |-> 30,
     retry |-> RetryTypesThree, before_sleep |-> "WARNING", reraise |-> TRUE]

PresetNames == {"api_retry", "aggressive_retry", "conservative_retry"}

PresetValue(n) ==
    CASE n = "api_retry" -> api_retry
      [] n = "aggressive_retry" -> aggressive_retry
      [] n = "conservative_retry" -> conservative_retry

\* ------------------------------------------------------ provider options
None == [none |-> TRUE]

HttpStatusCodes == {429, 500, 503, 504}

api_retry_options ==
    [attempts |-> 5, exp_base |-> 2, initial_delay |-> 1,
     http_status_codes |-> HttpStatusCodes]

aggressive_retry_options ==
    [attempts |-> 10, exp_base |-> 2, initial_delay |-> 2,
     http_status_codes |-> HttpStatusCodes]

\* Mutant: the conservative option built with the standard attempts.
conservative_retry_options_five_attempts ==
    [attempts |-> 5, exp_base |-> 2, initial_delay |-> 1,
     http_status_codes |-> HttpStatusCodes]

conservative_retry_options ==
    [attempts |-> 3, exp_base |-> 2, initial_delay |-> 1,
     http_status_codes |-> HttpStatusCodes]

OptionNames ==
    {"api_retry_options", "aggressive_retry_options",
     "conservative_retry_options"}

\* The value the if/else at the end of the module binds to an option name.
OptionValue(n, available) ==
    IF available
    THEN CASE n = "api_retry_options" -> api_retry_options
           [] n = "aggressive_retry_options" -> aggressive_retry_options
           [] n = "conservative_retry_options" -> conservative_retry_options
    ELSE None

\* The preset a provider option is named after.
PresetOf(n) ==
    CASE n = "api_retry_options" -> "api_retry"
      [] n = "aggressive_retry_options" -> "aggressive_retry"
      [] n = "conservative_retry_options" -> "conservative_retry"

\* ------------------------------------------------------------------ state
VARIABLES
    modpc,                 \* the module-level statement to run next
    GOOGLE_ADK_AVAILABLE,  \* "unset", "True" or "False"
    loadError,             \* the exception that ended the load, or "none"
    decorators,            \* module names bound to decorators: name -> record
    options,               \* module names bound to options: name -> record/None
    pc,                    \* position of the wrapped call in progress
    cur,                   \* the decorator of the wrapped call in progress
    attempt_number,        \* retry_state.attempt_number
    outcome,               \* retry_state.outcome: the last invocation's result
    seen,                  \* kinds of error the invocations of the call raised
    upcoming_sleep,        \* the wait computed for the coming sleep
    trace,                 \* events of the call: "invoke", "log", "sleep"
    logs,                  \* levels of the log records of the call
    waits,                 \* seconds slept before each re-invocation
    final,                 \* what reached the caller of the wrapped call
    last_end,              \* how the previous call through preset cur ended
    sys_modules,           \* the modules this process has imported
    mainpc,                \* day_one/main.py: the statement to run next
    main_error,            \* the uncaught error that ended main.py, or "none"
    environ,               \* os.environ of the main.py process: key -> value
    gemini_key,            \* main.py's gemini_key
    model_client,          \* the Gemini(...) object: << >> or its arguments
    main_events,           \* what main.py has done, in order
    tev_pc,                \* day_one/test_env_vars.py, per run: next statement
    tev_environ,           \* per run: os.environ, key -> value
    tev_keys,              \* per run: openai_key, anthropic_key, gemini_key
    tev_out                \* per run: the lines printed

vars ==
    <<modpc, GOOGLE_ADK_AVAILABLE, loadError, decorators, options, pc, cur,
      attempt_number, outcome, seen, upcoming_sleep, trace, logs, waits,
      final, last_end, sys_modules, mainpc, main_error, environ, gemini_key,
      model_client, main_events, tev_pc, tev_environ, tev_keys, tev_out>>

loadVars ==
    <<modpc, GOOGLE_ADK_AVAILABLE, loadError, decorators, options,
      sys_modules>>

\* The state of day_one/main.py.
mainVars ==
    <<mainpc, main_error, environ, gemini_key, model_client, main_events>>

\* The state of the runs of day_one/test_env_vars.py.
tevVars == <<tev_pc, tev_environ, tev_keys, tev_out>>

callVars ==
    <<pc, cur, attempt_number, outcome, seen, upcoming_sleep, trace, logs,
      waits, final, last_end>>

\* ----------------------------------------------------- process environment
\* The keys the scripts read.
Keys == {"OPENAI_API_KEY", "ANTHROPIC_API_KEY", "GEMINI_API_KEY"}

\* Values of an environment variable: Unset (os.getenv gives None), the empty
\* string (0), or one of NumValues distinct non-empty strings (1..NumValues).
Unset == -1
EnvValues == {Unset} \cup 0..NumValues
Environs == [Keys -> EnvValues]
NoEnviron == [k \in Keys |-> Unset]

\* The truth value Python gives a value read with os.getenv.
Truthy(v) == v >= 1

\* load_dotenv(): every key of the .env file that the environment does not
\* set already is set from the file (override is off by default).
load_dotenv(env, file) ==
    [k \in Keys |-> IF env[k] # Unset THEN env[k] ELSE file[k]]

\* The two runs of test_env_vars.py that are compared.
Runs == {1, 2}

NoOutcome == [failed |-> FALSE, kind |-> "none", inv |-> 0]
NoFinal == [status |-> "none", kind |-> "none", inv |-> 0]

\* The retry_config module is not imported yet and no wrapped call was made.
InitLibrary ==
    /\ modpc = "import"
    /\ GOOGLE_ADK_AVAILABLE = "unset"
    /\ loadError = "none"
    /\ decorators = << >>
    /\ options = << >>
    /\ pc = "idle"
    /\ cur = api_retry
    /\ attempt_number = 0
    /\ outcome = NoOutcome
    /\ seen = {}
    /\ upcoming_sleep = 0
    /\ trace = << >>
    /\ logs = << >>
    /\ waits = << >>
    /\ final = NoFinal
    /\ last_end = "none"
    /\ sys_modules = {}

\* main.py is not the program run.
InitMainOff ==
    /\ mainpc = "off"
    /\ main_error = "none"
    /\ environ = NoEnviron
    /\ gemini_key = Unset
    /\ model_client = << >>
    /\ main_events = << >>

\* test_env_vars.py is not the program run.
InitTevOff ==
    /\ tev_pc = [r \in Runs |-> "off"]
    /\ tev_environ = [r \in Runs |-> NoEnviron]
    /\ tev_keys = [r \in Runs |-> NoEnviron]
    /\ tev_out = [r \in Runs |-> << >>]

\* A process that imports shared.retry_config and calls wrapped functions.
Init == InitLibrary /\ InitMainOff /\ InitTevOff

\* ------------------------------------------------------------ module load
\* What `from google.genai import types` can do: succeed, or fail because
\* the package (ModuleNotFoundError) or the name (ImportError) is missing.
ImportOutcomes == {"ok", "ImportError", "ModuleNotFoundError"}

\* Mutant: the except clause matches the exact class only.
ExceptClause_exact_class(exc) == exc = "ImportError"

\* The except clause of the import.
ExceptClause(exc) == IsSubclass(exc, "ImportError")

\* The module is being imported: by main.py at its import of
\* shared.retry_config, or by another importer when main.py is not the
\* program run.
Importing == mainpc \in {"off", "import_retry_config"}

\* try: from google.genai import types ... except ImportError: ...
\* A module this process has imported already is found in sys.modules.
ImportGenai ==
    /\ Importing
    /\ modpc = "import"
    /\ \E o \in ImportOutcomes :
          /\ "google.genai" \in sys_modules => o = "ok"
          /\ sys_modules' =
                IF o = "ok" THEN sys_modules \cup {"google.genai"}
                ELSE sys_modules
          /\ IF o = "ok"
             THEN /\ GOOGLE_ADK_AVAILABLE' = "True"
                  /\ modpc' = "api_retry"
                  /\ loadError' = loadError
             ELSE IF ExceptClause(o)
             THEN /\ GOOGLE_ADK_AVAILABLE' = "False"
                  /\ modpc' = "api_retry"
                  /\ loadError' = loadError
             ELSE /\ GOOGLE_ADK_AVAILABLE' = GOOGLE_ADK_AVAILABLE
                  /\ modpc' = "raised"
                  /\ loadError' = o
    /\ UNCHANGED <<decorators, options>>
    /\ UNCHANGED callVars
    /\ UNCHANGED <<mainVars, tevVars>>

\* The module-level statement after the one binding name n.
NextStatement(n) ==
    CASE n = "api_retry" -> "aggressive_retry"
      [] n = "aggressive_retry" -> "conservative_retry"
      [] n = "conservative_retry" -> "api_retry_options"
      [] n = "api_retry_options" -> "aggressive_retry_options"
      [] n = "aggressive_retry_options" -> "conservative_retry_options"
      [] n = "conservative_retry_options" -> "loaded"

Bind(f, n, v) == [m \in DOMAIN f \cup {n} |-> IF m = n THEN v ELSE f[m]]

\* api_retry = retry(...), aggressive_retry = retry(...), ...
DefinePreset ==
    /\ Importing
    /\ modpc \in PresetNames
    /\ decorators' = Bind(decorators, modpc, PresetValue(modpc))
    /\ modpc' = NextStatement(modpc)
    /\ UNCHANGED <<GOOGLE_ADK_AVAILABLE, loadError, options, sys_modules>>
    /\ UNCHANGED callVars
    /\ UNCHANGED <<mainVars, tevVars>>

\* if GOOGLE_ADK_AVAILABLE: x_options = HttpRetryOptions(...) else: None
DefineOption ==
    /\ Importing
    /\ modpc \in OptionNames
    /\ options' =
          Bind(options, modpc, OptionValue(modpc, GOOGLE_ADK_AVAILABLE = "True"))
    /\ modpc' = NextStatement(modpc)
    /\ UNCHANGED <<GOOGLE_ADK_AVAILABLE, loadError, decorators, sys_modules>>
    /\ UNCHANGED callVars
    /\ UNCHANGED <<mainVars, tevVars>>

\* ------------------------------------------------------------ wrapped call
\* The decorators a caller can build with with_retry.
WithRetryInstances ==
    {with_retry(a, mn, mx, m) :
        a \in 1..MaxAttemptsArg, mn \in 0..MaxWaitArg, mx \in 0..MaxWaitArg,
        m \in 0..MaxMultiplierArg}

\* Mutant: the attempt counter lives in the decorator and is not started
\* afresh by a call.
StartCall_counter_kept ==
    /\ mainpc = "off"
    /\ modpc = "loaded"
    /\ pc = "idle"
    /\ \E d \in {decorators[n] : n \in DOMAIN decorators}
                \cup {with_retry_default} \cup WithRetryInstances :
          /\ cur' = d
          /\ last_end' = IF d = cur THEN last_end ELSE "none"
          /\ attempt_number' =
                IF d = cur /\ attempt_number > 0 THEN attempt_number ELSE 1
    /\ outcome' = NoOutcome
    /\ seen' = {}
    /\ upcoming_sleep' = 0
    /\ trace' = << >>
    /\ logs' = << >>
    /\ waits' = << >>
    /\ final' = NoFinal
    /\ pc' = "attempt"
    /\ UNCHANGED loadVars
    /\ UNCHANGED <<mainVars, tevVars>>

\* A caller calls a function wrapped by decorator d.
StartCall ==
    /\ mainpc = "off"
    /\ modpc = "loaded"
    /\ pc = "idle"
    /\ \E d \in {decorators[n] : n \in DOMAIN decorators}
                \cup {with_retry_default} \cup WithRetryInstances :
          /\ cur' = d
          /\ last_end' = IF d = cur THEN last_end ELSE "none"
    /\ attempt_number' = 1
    /\ outcome' = NoOutcome
    /\ seen' = {}
    /\ upcoming_sleep' = 0
    /\ trace' = << >>
    /\ logs' = << >>
    /\ waits' = << >>
    /\ final' = NoFinal
    /\ pc' = "attempt"
    /\ UNCHANGED loadVars
    /\ UNCHANGED <<mainVars, tevVars>>

\* DoAttempt: the wrapped operation is invoked and returns or raises.
Attempt ==
    /\ pc = "attempt"
    /\ \/ /\ outcome' =
                [failed |-> FALSE, kind |-> "none", inv |-> attempt_number]
          /\ seen' = seen
       \/ \E k \in RaisedKinds :
             /\ outcome' =
                   [failed |-> TRUE, kind |-> k, inv |-> attempt_number]
             /\ seen' = seen \cup {k}
    /\ trace' = Append(trace, "invoke")
    /\ pc' = "iter"
    /\ UNCHANGED <<cur, attempt_number, upcoming_sleep, logs, waits, final,
                   last_end>>
    /\ UNCHANGED loadVars
    /\ UNCHANGED <<mainVars, tevVars>>

\* Mutant: the decorator built without reraise=True.
Deliver_without_reraise(out, exhausted, reraise) ==
    IF ~out.failed
    THEN [status |-> "returned", kind |-> "none", inv |-> out.inv]
    ELSE IF exhausted
    THEN [status |-> "raised", kind |-> "RetryError", inv |-> 0]
    ELSE [status |-> "raised", kind |-> out.kind, inv |-> out.inv]

\* What the caller gets when the retry loop ends with outcome `out`: the
\* value, or the exception of the last invocation (reraise=True), or
\* tenacity's RetryError around it when the attempts ran out without reraise.
Deliver(out, exhausted, reraise) ==
    IF ~out.failed
    THEN [status |-> "returned", kind |-> "none", inv |-> out.inv]
    ELSE IF exhausted /\ ~reraise
    THEN [status |-> "raised", kind |-> "RetryError", inv |-> 0]
    ELSE [status |-> "raised", kind |-> out.kind, inv |-> out.inv]

\* The loop's decision after an invocation: "deliver" (no retry wanted),
\* "exhausted" (retry wanted, stop reached) or "sleep".
Decision(d, out, attempt) ==
    IF ~retry_if_exception_type(d.retry, out) THEN "deliver"
    ELSE IF stop_after_attempt(d.stop, attempt) THEN "exhausted"
    ELSE "sleep"

Iter ==
    /\ pc = "iter"
    /\ LET dec == Decision(cur, outcome, attempt_number) IN
       IF dec = "sleep"
       THEN /\ upcoming_sleep' =
                  wait_exponential(cur.multiplier, cur.min, cur.max,
                                   attempt_number)
            /\ pc' = "before_sleep"
            /\ final' = final
       ELSE /\ final' = Deliver(outcome, dec = "exhausted", cur.reraise)
            /\ pc' = "done"
            /\ upcoming_sleep' = upcoming_sleep
    /\ UNCHANGED <<cur, attempt_number, outcome, seen, trace, logs, waits,
                   last_end>>
    /\ UNCHANGED loadVars
    /\ UNCHANGED <<mainVars, tevVars>>

\* Mutant: the decorator built without before_sleep.
BeforeSleep_without_log ==
    /\ pc = "before_sleep"
    /\ pc' = "sleep"
    /\ UNCHANGED <<cur, attempt_number, outcome, seen, upcoming_sleep, trace,
                   logs, waits, final, last_end>>
    /\ UNCHANGED loadVars
    /\ UNCHANGED <<mainVars, tevVars>>

\* before_sleep=before_sleep_log(logger, logging.WARNING)
BeforeSleep ==
    /\ pc = "before_sleep"
    /\ logs' = Append(logs, cur.before_sleep)
    /\ trace' = Append(trace, "log")
    /\ pc' = "sleep"
    /\ UNCHANGED <<cur, attempt_number, outcome, seen, upcoming_sleep, waits,
                   final, last_end>>
    /\ UNCHANGED loadVars
    /\ UNCHANGED <<mainVars, tevVars>>

\* DoSleep: prepare_for_next_attempt(), then sleep.
Sleep ==
    /\ pc = "sleep"
    /\ attempt_number' = attempt_number + 1
    /\ waits' = Append(waits, upcoming_sleep)
    /\ trace' = Append(trace, "sleep")
    /\ pc' = "attempt"
    /\ UNCHANGED <<cur, outcome, seen, upcoming_sleep, logs, final,
                   last_end>>
    /\ UNCHANGED loadVars
    /\ UNCHANGED <<mainVars, tevVars>>

\* How a call through a preset ended: the operation returned, or the
\* attempts ran out on a retryable error, or an error that is not retried
\* came up. Calls through other decorators are not recorded.
Ending(d, out) ==
    IF d.name \notin PresetNames THEN "none"
    ELSE IF ~out.failed THEN "returned"
    ELSE IF retry_if_exception_type(d.retry, out) THEN "exhausted"
    ELSE "aborted"

\* The wrapped call is over and the caller goes on: the call's retry state
\* and what it delivered go with the call's frame; the decorator object and
\* the counters it last held remain.
Finish ==
    /\ pc = "done"
    /\ pc' = "idle"
    /\ outcome' = NoOutcome
    /\ seen' = {}
    /\ trace' = << >>
    /\ logs' = << >>
    /\ waits' = << >>
    /\ final' = NoFinal
    /\ last_end' = Ending(cur, outcome)
    /\ UNCHANGED <<cur, attempt_number, upcoming_sleep>>
    /\ UNCHANGED loadVars
    /\ UNCHANGED <<mainVars, tevVars>>

Next ==
    \/ ImportGenai
    \/ DefinePreset
    \/ DefineOption
    \/ StartCall
    \/ Attempt
    \/ Iter
    \/ BeforeSleep
    \/ Sleep
    \/ Finish

Spec == Init /\ [][Next]_vars

\* ------------------------------------------------------- day_one/main.py
\* The errors the framework's run methods end with in this model.
RunErrors == {"ServerError", "ClientError", "ConnectionError"}

\* An uncaught error ends the script.
Crash(err) ==
    /\ mainpc' = "crashed"
    /\ main_error' = err

\* load_dotenv()
MainLoadDotenv ==
    /\ mainpc = "load_dotenv"
    /\ \E file \in Environs : environ' = load_dotenv(environ, file)
    /\ mainpc' = "import_adk"
    /\ UNCHANGED <<main_error, gemini_key, model_client, main_events>>
    /\ UNCHANGED <<loadVars, callVars, tevVars>>

\* from google.adk... import Agent, Gemini, InMemoryRunner, google_search
MainImportAdk ==
    /\ mainpc = "import_adk"
    /\ \E o \in {"ok", "ModuleNotFoundError"} :
          IF o = "ok"
          THEN mainpc' = "import_genai" /\ main_error' = main_error
          ELSE Crash(o)
    /\ UNCHANGED <<environ, gemini_key, model_client, main_events>>
    /\ UNCHANGED <<loadVars, callVars, tevVars>>

\* Mutant: the import is wrapped in try/except ImportError and the script
\* goes on without it.
MainImportGenai_guarded ==
    /\ mainpc = "import_genai"
    /\ \E o \in ImportOutcomes :
          /\ "google.genai" \in sys_modules => o = "ok"
          /\ sys_modules' =
                IF o = "ok" THEN sys_modules \cup {"google.genai"}
                ELSE sys_modules
          /\ mainpc' = "import_retry_config"
          /\ main_error' = main_error
    /\ UNCHANGED <<environ, gemini_key, model_client, main_events>>
    /\ UNCHANGED <<modpc, GOOGLE_ADK_AVAILABLE, loadError, decorators, options>>
    /\ UNCHANGED <<callVars, tevVars>>

\* from google.genai import types: not guarded, so a failure ends the script.
MainImportGenai ==
    /\ mainpc = "import_genai"
    /\ \E o \in ImportOutcomes :
          /\ "google.genai" \in sys_modules => o = "ok"
          /\ IF o = "ok"
             THEN /\ sys_modules' = sys_modules \cup {"google.genai"}
                  /\ mainpc' = "import_retry_config"
                  /\ main_error' = main_error
             ELSE /\ sys_modules' = sys_modules
                  /\ Crash(o)
    /\ UNCHANGED <<environ, gemini_key, model_client, main_events>>
    /\ UNCHANGED <<modpc, GOOGLE_ADK_AVAILABLE, loadError, decorators, options>>
    /\ UNCHANGED <<callVars, tevVars>>

\* from shared.retry_config import conservative_retry_options: the module has
\* run (ImportGenai, DefinePreset, DefineOption) and the name is bound; then
\* print("ADK components imported successfully.")
MainImportRetryConfig ==
    /\ mainpc = "import_retry_config"
    /\ modpc \in {"loaded", "raised"}
    /\ IF modpc = "loaded"
       THEN /\ mainpc' = "getenv"
            /\ main_error' = main_error
            /\ main_events' = Append(main_events, "imported")
       ELSE /\ Crash(loadError)
            /\ main_events' = main_events
    /\ UNCHANGED <<environ, gemini_key, model_client>>
    /\ UNCHANGED <<loadVars, callVars, tevVars>>

\* gemini_key = os.getenv('GEMINI_API_KEY')
MainGetenv ==
    /\ mainpc = "getenv"
    /\ gemini_key' = environ["GEMINI_API_KEY"]
    /\ mainpc' = "create_agent"
    /\ UNCHANGED <<main_error, environ, model_client, main_events>>
    /\ UNCHANGED <<loadVars, callVars, tevVars>>

\* The retry_options argument main.py gives Gemini(...).
RetryOptionsArgument == options["conservative_retry_options"]

\* search_agent = Agent(model=Gemini(model=..., retry_options=...), ...)
MainCreateAgent ==
    /\ mainpc = "create_agent"
    /\ model_client' =
          [model |-> "gemini-2.5-flash-lite",
           retry_options |-> RetryOptionsArgument]
    /\ main_events' = Append(main_events, "agent_created")
    /\ mainpc' = "create_runner"
    /\ UNCHANGED <<main_error, environ, gemini_key>>
    /\ UNCHANGED <<loadVars, callVars, tevVars>>

\* runner = InMemoryRunner(agent=search_agent)
MainCreateRunner ==
    /\ mainpc = "create_runner"
    /\ main_events' = Append(main_events, "runner_created")
    /\ mainpc' = "test_query"
    /\ UNCHANGED <<main_error, environ, gemini_key, model_client>>
    /\ UNCHANGED <<loadVars, callVars, tevVars>>

\* asyncio.run(test_query()) begins: await runner.run_debug(...)
MainTestQueryStart ==
    /\ mainpc = "test_query"
    /\ main_events' = Append(main_events, "query_started")
    /\ mainpc' = "in_test_query"
    /\ UNCHANGED <<main_error, environ, gemini_key, model_client>>
    /\ UNCHANGED <<loadVars, callVars, tevVars>>

\* Mutant: the canned query is wrapped in try/except and the script goes on
\* after a failure.
MainTestQueryEnd_error_caught ==
    /\ mainpc = "in_test_query"
    /\ \E o \in {"ok"} \cup RunErrors :
          /\ main_events' =
                Append(main_events, IF o = "ok" THEN "query_done" ELSE o)
          /\ mainpc' = "start_interactive"
          /\ main_error' = main_error
    /\ UNCHANGED <<environ, gemini_key, model_client>>
    /\ UNCHANGED <<loadVars, callVars, tevVars>>

\* run_debug returns and the response is printed, or it raises and nothing
\* catches the error.
MainTestQueryEnd ==
    /\ mainpc = "in_test_query"
    /\ \E o \in {"ok"} \cup RunErrors :
          IF o = "ok"
          THEN /\ main_events' = Append(main_events, "query_done")
               /\ mainpc' = "start_interactive"
               /\ main_error' = main_error
          ELSE /\ main_events' = Append(main_events, o)
               /\ Crash(o)
    /\ UNCHANGED <<environ, gemini_key, model_client>>
    /\ UNCHANGED <<loadVars, callVars, tevVars>>

\* print("Starting interactive debug mode..."); runner.run() begins
MainStartInteractive ==
    /\ mainpc = "start_interactive"
    /\ main_events' = Append(main_events, "interactive_started")
    /\ mainpc' = "interactive"
    /\ UNCHANGED <<main_error, environ, gemini_key, model_client>>
    /\ UNCHANGED <<loadVars, callVars, tevVars>>

Turns == Cardinality({i \in DOMAIN main_events : main_events[i] = "turn"})

\* runner.run(): the user asks a question that is answered, or leaves, or
\* the framework raises.
MainTurn ==
    /\ mainpc = "interactive"
    /\ \E o \in {"answered", "exit"} \cup RunErrors :
          CASE o = "answered" ->
                  /\ Turns < MaxTurns
                  /\ main_events' = Append(main_events, "turn")
                  /\ UNCHANGED <<mainpc, main_error>>
            [] o = "exit" ->
                  /\ main_events' = Append(main_events, "exit")
                  /\ mainpc' = "exited"
                  /\ main_error' = main_error
            [] OTHER ->
                  /\ main_events' = main_events
                  /\ Crash(o)
    /\ UNCHANGED <<environ, gemini_key, model_client>>
    /\ UNCHANGED <<loadVars, callVars, tevVars>>

\* main.py starts in a process with some environment.
InitMain ==
    /\ InitLibrary
    /\ InitTevOff
    /\ mainpc = "load_dotenv"
    /\ main_error = "none"
    /\ environ \in Environs
    /\ gemini_key = Unset
    /\ model_client = << >>
    /\ main_events = << >>

NextMain ==
    \/ MainLoadDotenv
    \/ MainImportAdk
    \/ MainImportGenai
    \/ ImportGenai
    \/ DefinePreset
    \/ DefineOption
    \/ MainImportRetryConfig
    \/ MainGetenv
    \/ MainCreateAgent
    \/ MainCreateRunner
    \/ MainTestQueryStart
    \/ MainTestQueryEnd
    \/ MainStartInteractive
    \/ MainTurn

SpecMain == InitMain /\ [][NextMain]_vars

\* ------------------------------------------------ day_one/test_env_vars.py
\* A printed line: the key it is about, whether it says "is set" or "is NOT
\* set", and the value it shows after that (Unset when it shows none).
Line(k, isset, shown) == [key |-> k, set |-> isset, shown |-> shown]

\* if openai_key: print("OPENAI_API_KEY is set") else: print("... NOT set")
OpenaiLine(v) ==
    IF Truthy(v) THEN Line("OPENAI_API_KEY", TRUE, Unset)
    ELSE Line("OPENAI_API_KEY", FALSE, Unset)

\* if anthropic_key: print(f"ANTHROPIC_API_KEY is set: {anthropic_key}") ...
AnthropicLine(v) ==
    IF Truthy(v) THEN Line("ANTHROPIC_API_KEY", TRUE, v)
    ELSE Line("ANTHROPIC_API_KEY", FALSE, Unset)

\* if gemini_key: print("GEMINI_API_KEY is set") else: print("... NOT set")
GeminiLine(v) ==
    IF Truthy(v) THEN Line("GEMINI_API_KEY", TRUE, Unset)
    ELSE Line("GEMINI_API_KEY", FALSE, Unset)

\* load_dotenv()
TevLoadDotenv(r) ==
    /\ tev_pc[r] = "load_dotenv"
    /\ \E file \in Environs :
          tev_environ' =
              [tev_environ EXCEPT ![r] = load_dotenv(tev_environ[r], file)]
    /\ tev_pc' = [tev_pc EXCEPT ![r] = "getenv"]
    /\ UNCHANGED <<tev_keys, tev_out>>
    /\ UNCHANGED <<loadVars, callVars, mainVars>>

\* openai_key = os.getenv(...); anthropic_key = ...; gemini_key = ...
TevGetenv(r) ==
    /\ tev_pc[r] = "getenv"
    /\ tev_keys' = [tev_keys EXCEPT ![r] = [k \in Keys |-> tev_environ[r][k]]]
    /\ tev_pc' = [tev_pc EXCEPT ![r] = "check_openai"]
    /\ UNCHANGED <<tev_environ, tev_out>>
    /\ UNCHANGED <<loadVars, callVars, mainVars>>

TevCheckOpenai(r) ==
    /\ tev_pc[r] = "check_openai"
    /\ tev_out' =
          [tev_out EXCEPT
              ![r] = Append(@, OpenaiLine(tev_keys[r]["OPENAI_API_KEY"]))]
    /\ tev_pc' = [tev_pc EXCEPT ![r] = "check_anthropic"]
    /\ UNCHANGED <<tev_environ, tev_keys>>
    /\ UNCHANGED <<loadVars, callVars, mainVars>>

TevCheckAnthropic(r) ==
    /\ tev_pc[r] = "check_anthropic"
    /\ tev_out' =
          [tev_out EXCEPT
              ![r] = Append(@, AnthropicLine(tev_keys[r]["ANTHROPIC_API_KEY"]))]
    /\ tev_pc' = [tev_pc EXCEPT ![r] = "check_gemini"]
    /\ UNCHANGED <<tev_environ, tev_keys>>
    /\ UNCHANGED <<loadVars, callVars, mainVars>>

TevCheckGemini(r) ==
    /\ tev_pc[r] = "check_gemini"
    /\ tev_out' =
          [tev_out EXCEPT
              ![r] = Append(@, GeminiLine(tev_keys[r]["GEMINI_API_KEY"]))]
    /\ tev_pc' = [tev_pc EXCEPT ![r] = "done"]
    /\ UNCHANGED <<tev_environ, tev_keys>>
    /\ UNCHANGED <<loadVars, callVars, mainVars>>

\* Two runs of test_env_vars.py, each in a process with some environment.
InitTev ==
    /\ InitLibrary
    /\ InitMainOff
    /\ tev_pc = [r \in Runs |-> "load_dotenv"]
    /\ tev_environ \in [Runs -> Environs]
    /\ tev_keys = [r \in Runs |-> NoEnviron]
    /\ tev_out = [r \in Runs |-> << >>]

NextTev ==
    \/ \E r \in Runs : TevLoadDotenv(r)
    \/ \E r \in Runs : TevGetenv(r)
    \/ \E r \in Runs : TevCheckOpenai(r)
    \/ \E r \in Runs : TevCheckAnthropic(r)
    \/ \E r \in Runs : TevCheckGemini(r)

SpecTev == InitTev /\ [][NextTev]_vars

\* ------------------------------------------------------ derived quantities
\* Number of invocations of the wrapped operation in the call so far.
Count(ev) == Cardinality({i \in DOMAIN trace : trace[i] = ev})
Invocations == Count("invoke")

\* The kind k of error is one the decorator d retries on.
KindRetryable(d, k) == \E t \in d.retry : IsSubclass(k, t)

\* The call in progress goes through the module-level preset named n.
ThroughPreset(n) == n \in DOMAIN decorators /\ cur = decorators[n]

\* The attempts each preset is built with.
PresetAttempts(n) ==
    CASE n = "api_retry" -> 5
      [] n = "aggressive_retry" -> 10
      [] n = "conservative_retry" -> 3

\* ------------------------------------------------------------------ claims

\* C1: under every preset, a wrapped operation that raised a retryable error
\* on every invocation has been invoked exactly max_attempts times (5, 10, 3)
\* when the call ends, and the caller gets the error of the last invocation
\* itself; conservative_retry around an operation that always raises
\* APITimeoutError ends after 3 invocations with APITimeoutError.
C1_ExhaustionReraisesLastError ==
    \A n \in PresetNames :
        (/\ ThroughPreset(n)
         /\ pc = "done"
         /\ outcome.failed
         /\ \A k \in seen : KindRetryable(cur, k))
        =>
        /\ Invocations = PresetAttempts(n)
        /\ cur.stop = PresetAttempts(n)
        /\ outcome.inv = Invocations
        /\ final = [status |-> "raised", kind |-> outcome.kind,
                    inv |-> Invocations]
        /\ (n = "conservative_retry" /\ seen = {APITimeoutError}
              => Invocations = 3 /\ final.kind = APITimeoutError)

C1_Witness ==
    /\ ThroughPreset("conservative_retry")
    /\ pc = "done"
    /\ seen = {APITimeoutError}
    /\ Invocations = 3
    /\ final = [status |-> "raised", kind |-> APITimeoutError, inv |-> 3]

\* C2: under every preset, once an invocation has raised an error of a kind
\* the preset does not retry on, nothing follows it in the call (no log, no
\* sleep, no further invocation) and the caller gets that same error; so a
\* non-retryable error on the first call means exactly one invocation.
C2_NonRetryablePropagatesAtOnce ==
    \A n \in PresetNames :
        (/\ ThroughPreset(n)
         /\ pc # "idle"
         /\ outcome.failed
         /\ ~KindRetryable(cur, outcome.kind))
        =>
        /\ pc \in {"iter", "done"}
        /\ trace[Len(trace)] = "invoke"
        /\ Invocations = outcome.inv
        /\ Len(waits) = outcome.inv - 1
        /\ Len(logs) = outcome.inv - 1
        /\ pc = "done" =>
              final = [status |-> "raised", kind |-> outcome.kind,
                       inv |-> outcome.inv]

C2_Witness ==
    /\ ThroughPreset("aggressive_retry")
    /\ pc = "done"
    /\ outcome = [failed |-> TRUE, kind |-> "ValueError", inv |-> 1]
    /\ Invocations = 1
    /\ waits = << >>
    /\ final = [status |-> "raised", kind |-> "ValueError", inv |-> 1]

\* C3, as the spec states it: under every decorator the wait between attempt
\* k and attempt k+1 is min(max_wait, min_wait * multiplier^(k-1)); stated
\* here for the cases the spec names: multiplier 1 or 2 and bounds with
\* 1 <= min_wait <= max_wait.
C3_Original_WaitIsMinTimesMultiplierPower ==
    (cur.multiplier \in {1, 2} /\ 1 <= cur.min /\ cur.min <= cur.max) =>
        \A k \in DOMAIN waits :
            waits[k] = Min2(cur.max, cur.min * Pow(cur.multiplier, k - 1))

\* C3, amended: under every decorator (presets and with_retry instances with
\* min_wait >= 0) the wait between attempt k and attempt k+1 is
\* max(min_wait, min(max_wait, multiplier * 2^(k-1))) for 1 <= k <
\* max_attempts: the base of the exponential is 2, the multiplier scales it
\* and min_wait is a lower clamp.
C3_WaitIsClampedMultiplierTimesPowerOfTwo ==
    /\ Len(waits) < Max2(cur.stop, 1)
    /\ \A k \in DOMAIN waits :
          waits[k] = Max2(cur.min, Min2(cur.max, cur.multiplier * Pow(2, k - 1)))
    /\ pc = "sleep" =>
          upcoming_sleep =
              Max2(cur.min,
                   Min2(cur.max, cur.multiplier * Pow(2, attempt_number - 1)))

C3_Witness ==
    /\ cur = with_retry(3, 1, 2, 1)
    /\ pc = "done"
    /\ waits = <<1, 2>>

\* C4, as the spec states it: under api_retry every wait of a call is the
\* same value.
C4_Original_StandardWaitConstant ==
    ThroughPreset("api_retry") =>
        \A i, j \in DOMAIN waits : waits[i] = waits[j]

\* C4, amended: under api_retry (multiplier=1, min=1, max=60) the wait after
\* attempt k is 2^(k-1) seconds, that is 1, 2, 4, 8 for k from 1 to 4: the
\* backoff doubles at every attempt.
C4_StandardWaitDoubles ==
    ThroughPreset("api_retry") =>
        /\ Len(waits) <= 4
        /\ \A k \in DOMAIN waits : waits[k] = Pow(2, k - 1)
        /\ \A k \in DOMAIN waits : k > 1 => waits[k] = 2 * waits[k - 1]

C4_Witness ==
    /\ ThroughPreset("api_retry")
    /\ pc = "done"
    /\ waits = <<1, 2, 4, 8>>

\* The first invocation of the call raised ConnectionError or TimeoutError
\* and is still the last invocation made.
FirstRaisedEnvironmentError ==
    /\ outcome.failed
    /\ outcome.inv = 1
    /\ outcome.kind \in {"ConnectionError", "TimeoutError"}

\* C5, as the spec states it: under each of the three presets a first
\* invocation that raises ConnectionError or TimeoutError is followed by a
\* second one, so the call never ends on it.
C5_Original_EnvironmentErrorsRetriedByAll ==
    \A n \in PresetNames :
        ThroughPreset(n) /\ FirstRaisedEnvironmentError => pc # "done"

\* C5, amended: ConnectionError and TimeoutError are retryable under
\* api_retry, aggressive_retry and with_retry, where a first invocation that
\* raises one of them is followed by a second; conservative_retry does not
\* retry on them: the call ends on that first invocation with the error
\* reaching the caller.
C5_EnvironmentErrorsRetriedExceptConservative ==
    /\ \A n \in {"api_retry", "aggressive_retry"} :
          ThroughPreset(n) /\ FirstRaisedEnvironmentError /\ pc # "idle"
              => pc \in {"iter", "before_sleep", "sleep", "attempt"}
    /\ cur.name = "with_retry" /\ cur.stop > 1 /\ FirstRaisedEnvironmentError
          /\ pc # "idle"
              => pc \in {"iter", "before_sleep", "sleep", "attempt"}
    /\ ThroughPreset("conservative_retry") /\ FirstRaisedEnvironmentError
          /\ pc # "idle"
              => /\ pc \in {"iter", "done"}
                 /\ Invocations = 1
                 /\ pc = "done" =>
                       final = [status |-> "raised", kind |-> outcome.kind,
                                inv |-> 1]

C5_Witness ==
    /\ ThroughPreset("conservative_retry")
    /\ pc = "done"
    /\ Invocations = 1
    /\ final = [status |-> "raised", kind |-> "ConnectionError", inv |-> 1]

\* C6: when the import of google.genai failed (ImportError or its subclass
\* ModuleNotFoundError) the load does not raise and, once the module is
\* loaded, all three provider options are None; when it succeeded all three
\* are present; a loaded module never has some present and others None.
C6_OptionsAllAbsentOrAllPresent ==
    /\ modpc # "raised"
    /\ loadError = "none"
    /\ modpc = "loaded" =>
          /\ DOMAIN options = OptionNames
          /\ GOOGLE_ADK_AVAILABLE \in {"True", "False"}
          /\ GOOGLE_ADK_AVAILABLE = "False" =>
                \A n \in OptionNames : options[n] = None
          /\ GOOGLE_ADK_AVAILABLE = "True" =>
                \A n \in OptionNames : options[n] # None
          /\ \/ \A n \in OptionNames : options[n] = None
             \/ \A n \in OptionNames : options[n] # None

C6_Witness ==
    /\ modpc = "loaded"
    /\ GOOGLE_ADK_AVAILABLE = "False"
    /\ \A n \in OptionNames : n \in DOMAIN options /\ options[n] = None

\* C7: a call through with_retry(max_attempts=1, ...) invokes the operation
\* once whatever it raises and whatever min_wait, max_wait and multiplier
\* are: no log, no sleep, and an error it raises is the error the caller gets.
C7_SingleAttemptNeverRetries ==
    (cur.name = "with_retry" /\ cur.stop = 1 /\ pc # "idle") =>
        /\ Invocations <= 1
        /\ attempt_number = 1
        /\ waits = << >>
        /\ logs = << >>
        /\ pc \in {"attempt", "iter", "done"}
        /\ pc = "done" =>
              /\ Invocations = 1
              /\ outcome.failed =>
                    final = [status |-> "raised", kind |-> outcome.kind,
                             inv |-> 1]

C7_Witness ==
    /\ cur.name = "with_retry"
    /\ cur.stop = 1
    /\ cur.multiplier = 2
    /\ pc = "done"
    /\ Invocations = 1
    /\ final = [status |-> "raised", kind |-> RateLimitError, inv |-> 1]

\* The parameters of a decorator are well formed.
WellFormed(d) ==
    /\ d.min <= d.max
    /\ d.stop >= 1
    /\ d.retry # {}
    /\ d.retry \subseteq
          {RateLimitError, APIConnectionError, APITimeoutError,
           "ConnectionError", "TimeoutError"}

\* C8: every preset bound in the module, and the decorator with_retry()
\* builds from its defaults, has min_wait <= max_wait, max_attempts >= 1 and
\* a non-empty set of retryable kinds among the five named ones; a preset,
\* once bound, keeps its value in every step, and the decorator of a call in
\* progress is not changed by the call.
C8_PresetsWellFormedAndConstant ==
    /\ [](/\ \A n \in DOMAIN decorators : WellFormed(decorators[n])
          /\ WellFormed(with_retry_default)
          /\ (pc # "idle" /\ cur.name = "with_retry" /\ cur.stop = 5
                => WellFormed(cur)))
    /\ [][/\ \A n \in DOMAIN decorators :
                n \in DOMAIN decorators' /\ decorators'[n] = decorators[n]
          /\ pc # "idle" => cur' = cur]_vars

C8_Witness ==
    /\ DOMAIN decorators = PresetNames
    /\ cur = with_retry_default
    /\ pc = "done"
    /\ Invocations = 5

\* C9: in every wrapped call the events are invoke (log sleep invoke)*: one
\* WARNING log record right before each sleep, each sleep between two
\* invocations, each log-and-sleep after an invocation that failed with a
\* retryable error; a finished call of n invocations made n-1 logs and n-1
\* sleeps and ends on an invocation.
C9_OneWarningBeforeEachSleep ==
    /\ \A i \in DOMAIN trace :
          trace[i] = CASE i % 3 = 1 -> "invoke"
                       [] i % 3 = 2 -> "log"
                       [] OTHER -> "sleep"
    /\ Len(logs) = Count("log")
    /\ \A i \in DOMAIN logs : logs[i] = "WARNING"
    /\ Len(waits) = Count("sleep")
    /\ pc \in {"before_sleep", "sleep"} =>
          outcome.failed /\ KindRetryable(cur, outcome.kind)
    /\ pc = "done" =>
          /\ Invocations >= 1
          /\ trace[Len(trace)] = "invoke"
          /\ Count("log") = Invocations - 1
          /\ Count("sleep") = Invocations - 1

C9_Witness ==
    /\ pc = "done"
    /\ trace = <<"invoke", "log", "sleep", "invoke", "log", "sleep", "invoke">>
    /\ logs = <<"WARNING", "WARNING">>
    /\ final.status = "returned"

\* C10: once the module is loaded with google.genai available, each provider
\* option has the attempts of the preset of the same name (5, 10, 3), its
\* initial delay is that preset's min wait (1, 2, 1), and it retries exactly
\* the status codes 429, 500, 503 and 504.
C10_OptionsMirrorPresets ==
    (modpc = "loaded" /\ GOOGLE_ADK_AVAILABLE = "True") =>
        /\ \A n \in OptionNames :
              /\ options[n].attempts = decorators[PresetOf(n)].stop
              /\ options[n].initial_delay = decorators[PresetOf(n)].min
              /\ options[n].http_status_codes = {429, 500, 503, 504}
        /\ options["api_retry_options"].attempts = 5
        /\ options["aggressive_retry_options"].attempts = 10
        /\ options["conservative_retry_options"].attempts = 3
        /\ options["api_retry_options"].initial_delay = 1
        /\ options["aggressive_retry_options"].initial_delay = 2
        /\ options["conservative_retry_options"].initial_delay = 1

C10_Witness ==
    /\ modpc = "loaded"
    /\ GOOGLE_ADK_AVAILABLE = "True"
    /\ options["aggressive_retry_options"].attempts = 10
    /\ decorators["aggressive_retry"].stop = 10

\* Number of times event e is in main.py's record.
MainCount(e) ==
    Cardinality({i \in DOMAIN main_events : main_events[i] = e})

\* The positions of event e in main.py's record.
MainAt(e) == {i \in DOMAIN main_events : main_events[i] = e}

\* C11: in main.py the canned query is started at most once; the interactive
\* loop starts only after that one query has finished; a canned query that
\* ends with an error ends the process with that same error, and the
\* interactive loop is never entered.
C11_CannedQueryOnceBeforeInteractive ==
    /\ MainCount("query_started") <= 1
    /\ mainpc \in {"start_interactive", "interactive", "exited"} =>
          MainCount("query_started") = 1
    /\ \A i \in MainAt("interactive_started") :
          /\ MainCount("query_started") = 1
          /\ \E j \in MainAt("query_started") :
                j + 1 \in MainAt("query_done") /\ j + 1 < i
    /\ \A j \in MainAt("query_started") :
          (j < Len(main_events) /\ main_events[j + 1] \in RunErrors) =>
              /\ mainpc = "crashed"
              /\ main_error = main_events[j + 1]
              /\ MainCount("interactive_started") = 0
              /\ MainCount("turn") = 0
              /\ Len(main_events) = j + 1

C11_Witness ==
    /\ mainpc = "crashed"
    /\ main_error = "ServerError"
    /\ MainCount("query_started") = 1
    /\ main_events[Len(main_events)] = "ServerError"
    /\ MainCount("interactive_started") = 0

\* C12: whenever main.py has constructed the model client, the retry_options
\* it passed is a present option (conservative_retry_options, not None); in a
\* process where google.genai is not imported the script is still at its
\* imports or has stopped on the import error, with no model client
\* constructed, and retry_config is never loaded without the provider there.
C12_ModelClientNeverGetsNone ==
    /\ model_client # << >> =>
          /\ model_client.retry_options # None
          /\ model_client.retry_options = conservative_retry_options
          /\ "google.genai" \in sys_modules
    /\ (mainpc # "off" /\ "google.genai" \notin sys_modules) =>
          /\ model_client = << >>
          /\ modpc = "import"
          /\ mainpc \in {"load_dotenv", "import_adk", "import_genai", "crashed"}
    /\ (mainpc = "crashed" /\ main_error \in {"ImportError", "ModuleNotFoundError"})
          => model_client = << >> /\ main_events = << >>
    /\ mainpc # "off" => GOOGLE_ADK_AVAILABLE # "False"

C12_Witness ==
    /\ mainpc = "test_query"
    /\ model_client # << >>
    /\ model_client.retry_options = conservative_retry_options
    /\ GOOGLE_ADK_AVAILABLE = "True"

\* C13: when an invocation of the wrapped operation succeeds (after k-1
\* invocations that raised retryable errors, k <= max_attempts), the call
\* returns that invocation's result: k invocations, k-1 sleeps, nothing
\* raised, and no invocation, log or sleep after the success.
C13_SuccessEndsTheCall ==
    (pc # "idle" /\ outcome.inv >= 1 /\ ~outcome.failed) =>
        /\ pc \in {"iter", "done"}
        /\ Invocations = outcome.inv
        /\ trace[Len(trace)] = "invoke"
        /\ Len(waits) = outcome.inv - 1
        /\ outcome.inv <= Max2(cur.stop, 1)
        /\ \A k \in seen : KindRetryable(cur, k)
        /\ pc = "done" =>
              final = [status |-> "returned", kind |-> "none",
                       inv |-> outcome.inv]

C13_Witness ==
    /\ ThroughPreset("api_retry")
    /\ pc = "done"
    /\ seen = {RateLimitError, "TimeoutError"}
    /\ Invocations = 3
    /\ waits = <<1, 2>>
    /\ final = [status |-> "returned", kind |-> "none", inv |-> 3]

\* C14: in every call through a preset, whatever the earlier call through
\* that preset did (none, returned, attempts exhausted, aborted on an error
\* that is not retried), the attempt counter counts this call's invocations
\* from 1, the first wait is the wait for attempt 1, and the attempts run
\* out only at the preset's max_attempts invocations of this call.
C14_CallsStartAfresh ==
    \A n \in PresetNames :
        (ThroughPreset(n) /\ pc # "idle") =>
            /\ last_end \in {"none", "returned", "exhausted", "aborted"}
            /\ attempt_number = Invocations + (IF pc = "attempt" THEN 1 ELSE 0)
            /\ Len(waits) = attempt_number - 1
            /\ Invocations <= PresetAttempts(n)
            /\ waits # << >> =>
                  waits[1] = Max2(cur.min, Min2(cur.max, cur.multiplier))
            /\ (pc = "done" /\ outcome.failed
                  /\ KindRetryable(cur, outcome.kind))
                  => Invocations = PresetAttempts(n)

C14_Witness ==
    /\ ThroughPreset("conservative_retry")
    /\ last_end = "exhausted"
    /\ pc = "done"
    /\ Invocations = 3
    /\ waits = <<1, 2>>
    /\ outcome.failed

\* The multipliers and attempt numbers for which C15 checks the wait
\* function itself, beyond the waits the calls of the model make.
C15_Multipliers == (0 - MaxMultiplierArg)..MaxMultiplierArg
C15_Attempts == 1..10

\* C15: under every decorator with 0 <= min_wait <= max_wait every wait of a
\* call lies in [min_wait, max_wait], the waits never decrease from one
\* attempt to the next, and after a wait of max_wait every later wait is
\* max_wait; the same holds of the wait function for the bounds of that
\* decorator with any multiplier of C15_Multipliers.
C15_WaitsBoundedAndMonotone ==
    (0 <= cur.min /\ cur.min <= cur.max) =>
        /\ \A k \in DOMAIN waits :
              /\ cur.min <= waits[k]
              /\ waits[k] <= cur.max
              /\ k > 1 => waits[k - 1] <= waits[k]
              /\ (k > 1 /\ waits[k - 1] = cur.max) => waits[k] = cur.max
        /\ pc = "sleep" =>
              \A m \in C15_Multipliers : \A k \in C15_Attempts :
                 LET w == wait_exponential(m, cur.min, cur.max, k)
                     v == wait_exponential(m, cur.min, cur.max, k + 1)
                 IN  /\ cur.min <= w
                     /\ w <= v
                     /\ v <= cur.max
                     /\ w = cur.max => v = cur.max

C15_Witness ==
    /\ ThroughPreset("aggressive_retry")
    /\ pc = "done"
    /\ waits = <<2, 4, 8, 16, 32, 64, 120, 120, 120>>

\* The environments of the two runs, as the script reads them, agree on
\* which keys are set to a non-empty value.
SamePresence ==
    \A k \in Keys : Truthy(tev_environ[1][k]) <=> Truthy(tev_environ[2][k])

\* C16: two finished runs of test_env_vars.py whose environments agree on
\* which of the three keys are set to a non-empty value have printed the same
\* lines, whatever the values of the keys are.
C16_OutputShowsOnlyPresence ==
    (tev_pc[1] = "done" /\ tev_pc[2] = "done" /\ SamePresence)
        => tev_out[1] = tev_out[2]

====
